---- MODULE Spec2Model ----
(***************************************************************************)
(* A model of the Football-agent repository: FootballAgent (src/agent.py)  *)
(* and the real-time recommender (src/recommander.py).                     *)
(*                                                                         *)
(* Python values are tagged records [t, v]; a Python str is a TLA+ string, *)
(* a list a sequence, a dict a function from its keys.  An HTTP exchange   *)
(* is a record saying whether the transport failed, whether the status was *)
(* 2xx, whether the body parsed as JSON, and the parsed body.              *)
(***************************************************************************)
EXTENDS Integers, Sequences, FiniteSets, TLC

VARIABLES
    entry,        \* the function the program was entered through
    pc,           \* position in the running function
    raised,       \* TRUE once an exception has propagated out of the entry function
    calls,        \* the external calls issued so far, in order
    team_name,    \* argument team_name
    last_n,       \* argument last_n
    teams_resp,   \* the exchange with searchteams.php
    matches_resp, \* the exchange with eventslast.php
    match_list,   \* fetch_matches' return value
    serper_resp,  \* the exchange with google.serper.dev
    site_result,  \* search_official_site's return value
    website_url,  \* run's local website_url
    page_resp,    \* the exchange with the located page
    page_content, \* extract_page_content's return value
    gemini_resp,  \* the last exchange with the Gemini endpoint
    feedback,     \* analyze_matches' / call_gemini_api's return value
    duration,     \* run_realtime_recommender's argument duration
    minute,       \* the loop variable of run_realtime_recommender
    live_stats,   \* the snapshot of the current iteration
    ml_pred,      \* the predictor's output of the current iteration
    printed       \* the blocks printed by the loop, in order

vars == <<entry, pc, raised, calls, team_name, last_n, teams_resp, matches_resp,
          match_list, serper_resp, site_result, website_url, page_resp,
          page_content, gemini_resp, feedback, duration, minute, live_stats,
          ml_pred, printed>>

agentVars == <<team_name, last_n, teams_resp, matches_resp, match_list,
               serper_resp, site_result, website_url, page_resp, page_content>>

recVars == <<duration, minute, live_stats, ml_pred, printed>>

-----------------------------------------------------------------------------
(* Bounds of the model *)

MaxEvents == 3       \* longest events list the events endpoint returns
MaxN == 4            \* largest last_n
MaxNeg == 2          \* last_n ranges over -MaxNeg .. MaxN
MaxItems == 2        \* longest result array of the search provider
MaxKeys == 2         \* most fields in a body of the search provider
MaxChunks == 3       \* longest page, in chunks of PageChunks
MaxDuration == 3     \* largest duration of the recommendation loop

-----------------------------------------------------------------------------
(* Python values *)

Null == [t |-> "null", v |-> 0]
Str(s) == [t |-> "str", v |-> s]
Num(n) == [t |-> "num", v |-> n]
List(s) == [t |-> "list", v |-> s]
Obj(f) == [t |-> "obj", v |-> f]

EmptyObj == Obj([k \in {} |-> Null])

\* bool(v)
Truthy(x) ==
    CASE x.t = "null" -> FALSE
      [] x.t = "str"  -> x.v # ""
      [] x.t = "num"  -> x.v # 0
      [] x.t = "list" -> Len(x.v) > 0
      [] x.t = "obj"  -> DOMAIN x.v # {}

\* str(v), as an f-string renders the values the model draws
PyStr(x) ==
    CASE x.t = "str"  -> x.v
      [] x.t = "null" -> "None"

\* d.get(k, default) on a dict d
DictGet(d, k, default) == IF k \in DOMAIN d.v THEN d.v[k] ELSE default

\* lst[:n] on a list
SliceTo(s, n) ==
    IF n >= 0
    THEN SubSeq(s, 1, IF n < Len(s) THEN n ELSE Len(s))
    ELSE SubSeq(s, 1, IF Len(s) + n > 0 THEN Len(s) + n ELSE 0)

\* v[k] with a str key k: the exception it raises, or the value
IndexKey(x, k) ==
    IF x.t = "obj"
    THEN IF k \in DOMAIN x.v
         THEN [err |-> "none", val |-> x.v[k]]
         ELSE [err |-> "KeyError", val |-> Null]
    ELSE [err |-> "TypeError", val |-> Null]

\* v[0]: the exception it raises, or the value
IndexZero(x) ==
    CASE x.t = "list" -> IF Len(x.v) > 0
                         THEN [err |-> "none", val |-> x.v[1]]
                         ELSE [err |-> "IndexError", val |-> Null]
      [] x.t = "str"  -> IF Len(x.v) > 0
                         THEN [err |-> "none", val |-> Str(SubSeq(x.v, 1, 1))]
                         ELSE [err |-> "IndexError", val |-> Null]
      [] x.t = "obj"  -> [err |-> "KeyError", val |-> Null]
      [] OTHER        -> [err |-> "TypeError", val |-> Null]

-----------------------------------------------------------------------------
(* HTTP exchanges *)

NoResp == [kind |-> "none", ok |-> FALSE, body |-> Null]
NetError == [kind |-> "neterror", ok |-> FALSE, body |-> Null]
BadJson(ok) == [kind |-> "badjson", ok |-> ok, body |-> Null]
Json(ok, body) == [kind |-> "json", ok |-> ok, body |-> body]

\* all sequences over S of length lo .. hi
SeqsOf(S, lo, hi) == UNION {[1..n -> S] : n \in lo..hi}

\* all dicts whose keys are a subset of K and whose values lie in V
DictsOf(K, V) == UNION {[S -> V] : S \in SUBSET K}

\* all dicts with at most n keys, the keys in K and the values in V
DictsUpTo(K, V, n) == UNION {[S -> V] : S \in {T \in SUBSET K : Cardinality(T) <= n}}

-----------------------------------------------------------------------------
(* FootballAgent.fetch_matches *)

\* The function returned to when `fn` returns: run's next statement, or the end.
After(fn) ==
    IF entry = "run"
    THEN CASE fn = "fetch_matches"        -> "site"
           [] fn = "search_official_site" -> "page"
           [] fn = "extract_page_content" -> "analyze"
           [] fn = "analyze_matches"      -> "done"
    ELSE "done"

TeamRecord(id, name) == Obj([k \in {"idTeam", "strTeam"} |->
                                IF k = "idTeam" THEN Str(id) ELSE Str(name)])

TeamBodies ==
    { Null, List(<<>>), List(<<Str("x")>>), EmptyObj,
      Obj([k \in {"teams"} |-> Null]),
      Obj([k \in {"teams"} |-> List(<<>>)]),
      Obj([k \in {"teams"} |-> Str("none")]),
      Obj([k \in {"teams"} |-> List(<<Null>>)]),
      Obj([k \in {"teams"} |-> List(<<Obj([k2 \in {"strTeam"} |-> Str("FC Barcelona")])>>)]),
      Obj([k \in {"teams"} |-> List(<<Obj([k2 \in {"idTeam"} |-> Str("133739")])>>)]),
      Obj([k \in {"teams"} |-> List(<<TeamRecord("133739", "FC Barcelona")>>)]),
      Obj([k \in {"teams"} |-> List(<<TeamRecord("133739", "FC Barcelona"),
                                      TeamRecord("134221", "Barcelona SC")>>)]) }

TeamResponses ==
    {NetError, BadJson(TRUE)} \cup {Json(TRUE, b) : b \in TeamBodies}
        \cup {Json(FALSE, Obj([k \in {"teams"} |-> Null]))}

\* TeamStage with team.get('idTeam') in place of team['idTeam'] at line 40
TeamStageNoIdCheck(r) ==
    IF r.kind # "json" \/ r.body.t # "obj" THEN [to |-> "except", id |-> Null]
    ELSE IF ~Truthy(DictGet(r.body, "teams", Null)) THEN [to |-> "notfound", id |-> Null]
    ELSE LET team == IndexZero(r.body.v["teams"]) IN
         IF team.err # "none" \/ team.val.t # "obj" THEN [to |-> "except", id |-> Null]
         ELSE IF IndexKey(team.val, "strTeam").err # "none"
              THEN [to |-> "except", id |-> Null]
              ELSE [to |-> "events", id |-> DictGet(team.val, "idTeam", Null)]

\* lines 33-41: what the team search leads to: "events" with the team found, or a
\* return of [] ("notfound": line 37; "except": line 61)
TeamStage(r) ==
    IF r.kind # "json" \/ r.body.t # "obj" THEN [to |-> "except", id |-> Null]
    ELSE IF ~Truthy(DictGet(r.body, "teams", Null)) THEN [to |-> "notfound", id |-> Null]
    ELSE LET team == IndexZero(r.body.v["teams"]) IN
         IF team.err # "none" THEN [to |-> "except", id |-> Null]
         ELSE IF IndexKey(team.val, "idTeam").err # "none"
                 \/ IndexKey(team.val, "strTeam").err # "none"
              THEN [to |-> "except", id |-> Null]
              ELSE [to |-> "events", id |-> team.val.v["idTeam"]]

EventDates == {Null, Str("2024-01-01")}
EventRecords ==
    { Obj(f) : f \in { g \in DictsOf({"dateEvent", "strHomeTeam", "strAwayTeam"},
                                     EventDates \cup {Str("Barcelona"), Str("Real Madrid")}) :
                         /\ "dateEvent" \in DOMAIN g => g["dateEvent"] \in EventDates
                         /\ "strHomeTeam" \in DOMAIN g => g["strHomeTeam"] = Str("Barcelona")
                         /\ "strAwayTeam" \in DOMAIN g => g["strAwayTeam"] = Str("Real Madrid") } }

EventItems == EventRecords \cup {Str("junk")}

\* the events lists the whole-run specification draws from
RunEventLists ==
    { <<>>,
      <<Obj([k \in {"strHomeTeam"} |-> Str("Barcelona")])>>,
      <<Obj([k \in {"dateEvent", "strHomeTeam", "strAwayTeam"} |->
               CASE k = "dateEvent" -> Str("2024-01-01")
                 [] k = "strHomeTeam" -> Str("Barcelona")
                 [] k = "strAwayTeam" -> Str("Real Madrid")]),
        Obj([k \in {"dateEvent"} |-> Null])>> }

EventLists == IF entry = "run" THEN RunEventLists ELSE SeqsOf(EventItems, 0, MaxEvents)

EventBodies ==
    { Null, List(<<Str("x")>>), EmptyObj, Obj([k \in {"results"} |-> Null]) }
        \cup { Obj([k \in {"results"} |-> List(s)]) : s \in EventLists }

EventResponses == {NetError, BadJson(TRUE)} \cup {Json(TRUE, b) : b \in EventBodies}

\* FormatMatch with the date's default left out at line 53
FormatMatchNoDefault(m) ==
    PyStr(DictGet(m, "strHomeTeam", Str(""))) \o " vs "
        \o PyStr(DictGet(m, "strAwayTeam", Str(""))) \o " - "
        \o PyStr(DictGet(m, "dateEvent", Null))

\* lines 53-56: one formatted match
FormatMatch(m) ==
    PyStr(DictGet(m, "strHomeTeam", Str(""))) \o " vs "
        \o PyStr(DictGet(m, "strAwayTeam", Str(""))) \o " - "
        \o PyStr(DictGet(m, "dateEvent", Str("Unknown date")))

\* SliceMatches with the slice one too long at line 50
SliceMatchesOffByOne(results, n) == SliceTo(results, n + 1)

\* line 50: matches_data['results'][:last_n]
SliceMatches(results, n) == SliceTo(results, n)

\* lines 44-61: fetch_matches' return value once the events call has been made
EventsStage(r, n) ==
    IF r.kind # "json" \/ r.body.t # "obj" THEN <<>>
    ELSE IF ~Truthy(DictGet(r.body, "results", Null)) THEN <<>>
    ELSE IF r.body.v["results"].t # "list" THEN <<>>
    ELSE LET matches == SliceMatches(r.body.v["results"].v, n) IN
         IF \E i \in 1..Len(matches) : matches[i].t # "obj"
         THEN <<>>
         ELSE [i \in 1..Len(matches) |-> FormatMatch(matches[i])]

\* lines 31-41 and 59-61: the team search and what follows it up to the events call
FetchTeamSearch ==
    /\ pc = "fetch_team"
    /\ \E r \in TeamResponses :
          /\ teams_resp' = r
          /\ calls' = Append(calls, "team_search")
          /\ IF TeamStage(r).to = "events"
             THEN pc' = "fetch_events" /\ UNCHANGED match_list
             ELSE pc' = After("fetch_matches") /\ match_list' = <<>>
    /\ UNCHANGED <<entry, raised, team_name, last_n, matches_resp, serper_resp,
                   site_result, website_url, page_resp, page_content, gemini_resp,
                   feedback>>
    /\ UNCHANGED recVars

\* lines 43-61: the events call and the formatting of its results
FetchEvents ==
    /\ pc = "fetch_events"
    /\ \E r \in EventResponses :
          /\ matches_resp' = r
          /\ calls' = Append(calls, "team_events")
          /\ match_list' = EventsStage(r, last_n)
          /\ pc' = After("fetch_matches")
    /\ UNCHANGED <<entry, raised, team_name, last_n, teams_resp, serper_resp,
                   site_result, website_url, page_resp, page_content, gemini_resp,
                   feedback>>
    /\ UNCHANGED recVars

-----------------------------------------------------------------------------
(* FootballAgent._post_serper, _extract_organic_from_response, search_official_site *)

\* line 78: the result-array field names, in probing order
OrganicKeys == <<"organic", "organic_results", "organic_results_list", "items", "results">>

SerperFields(pairs) == Obj([k \in {p[1] : p \in pairs} |->
                              (CHOOSE p \in pairs : p[1] = k)[2]])

SerperItems ==
    { SerperFields({<<"title", Str("FC Barcelona")>>, <<"link", Str("https://www.fcbarcelona.com")>>}),
      SerperFields({<<"url", Str("https://u.example")>>, <<"source", Str("s.example")>>}),
      SerperFields({<<"link", Str("")>>, <<"displayed_link", Str("d.example")>>}),
      SerperFields({<<"link", Null>>, <<"source", Str("s.example")>>}),
      SerperFields({<<"title", Str("no link")>>}),
      SerperFields({<<"source", Str("")>>}),
      Str("junk") }

SerperBlocks == {Null, Str("x")} \cup {List(s) : s \in SeqsOf(SerperItems, 0, MaxItems)}

\* the bodies the whole-run specification draws from
RunSerperBodies ==
    { Null, List(<<Str("x")>>), EmptyObj,
      Obj([k \in {"organic"} |-> List(<<SerperFields({<<"link", Str("https://www.fcbarcelona.com")>>})>>)]),
      Obj([k \in {"organic"} |-> List(<<SerperFields({<<"link", Str("N/A")>>})>>)]),
      Obj([k \in {"items"} |-> List(<<SerperFields({<<"title", Str("no link")>>})>>)]),
      Obj([k \in {"results"} |-> List(<<Str("junk")>>)]) }

SerperBodies ==
    IF entry = "run" THEN RunSerperBodies
    ELSE {Null, List(<<>>), List(<<Str("x")>>), Str("oops")}
            \cup {Obj(f) : f \in DictsUpTo({OrganicKeys[i] : i \in 1..Len(OrganicKeys)},
                                            SerperBlocks, MaxKeys)}

SerperResponses ==
    {NetError, BadJson(TRUE),
     Json(FALSE, Obj([k \in {"organic"} |->
                         List(<<SerperFields({<<"link", Str("https://www.fcbarcelona.com")>>})>>)]))}
        \cup {Json(TRUE, b) : b \in SerperBodies}

\* lines 64-73: _post_serper's return value
PostSerper(r) == IF r.kind = "json" /\ r.ok THEN r.body ELSE Null

\* a or b or ... over item.get(k) for the keys ks, in order
RECURSIVE OrChain(_, _)
OrChain(item, ks) ==
    LET x == DictGet(item, Head(ks), Null) IN
    IF Len(ks) = 1 \/ Truthy(x) THEN x ELSE OrChain(item, Tail(ks))

\* lines 83-86: one entry of the returned list
OrganicEntry(item) ==
    [ title   |-> LET x == OrChain(item, <<"title", "name", "heading">>)
                  IN IF Truthy(x) THEN x ELSE Str(""),
      link    |-> OrChain(item, <<"link", "url", "displayed_link", "source">>),
      snippet |-> LET x == OrChain(item, <<"snippet", "description", "snippet_highlighted">>)
                  IN IF Truthy(x) THEN x ELSE Str(""),
      raw     |-> item ]

\* line 80: isinstance(block, list) and block
IsResultBlock(data, key) ==
    /\ key \in DOMAIN data.v
    /\ data.v[key].t = "list"
    /\ Len(data.v[key].v) > 0

\* lines 75-88: the list returned, or the exception raised (exc)
ExtractOrganic(data) ==
    IF ~Truthy(data) THEN [exc |-> FALSE, out |-> <<>>]
    ELSE IF data.t # "obj" THEN [exc |-> TRUE, out |-> <<>>]
    ELSE LET hits == {i \in 1..Len(OrganicKeys) : IsResultBlock(data, OrganicKeys[i])} IN
         IF hits = {} THEN [exc |-> FALSE, out |-> <<>>]
         ELSE LET first == CHOOSE i \in hits : \A j \in hits : i <= j
                  block == data.v[OrganicKeys[first]].v
              IN IF \E i \in 1..Len(block) : block[i].t # "obj"
                 THEN [exc |-> TRUE, out |-> <<>>]
                 ELSE [exc |-> FALSE, out |-> [i \in 1..Len(block) |-> OrganicEntry(block[i])]]

\* lines 90-98: the value returned, or the exception raised (exc)
SiteLookup(r) ==
    LET results == ExtractOrganic(PostSerper(r)) IN
    IF results.exc THEN [exc |-> TRUE, val |-> Null]
    ELSE IF Len(results.out) > 0 THEN [exc |-> FALSE, val |-> results.out[1].link]
    ELSE [exc |-> FALSE, val |-> Null]

\* lines 90-98, and line 160 of run: `search_official_site(team_name) or "N/A"`
SearchOfficialSite ==
    /\ pc = "site"
    /\ \E r \in SerperResponses :
          /\ serper_resp' = r
          /\ calls' = Append(calls, "web_search")
          /\ IF SiteLookup(r).exc
             THEN /\ raised' = TRUE
                  /\ pc' = "raised"
                  /\ UNCHANGED <<site_result, website_url>>
             ELSE /\ raised' = raised
                  /\ pc' = After("search_official_site")
                  /\ site_result' = SiteLookup(r).val
                  /\ website_url' = IF entry # "run" THEN website_url
                                    ELSE IF Truthy(SiteLookup(r).val)
                                         THEN SiteLookup(r).val ELSE Str("N/A")
    /\ UNCHANGED <<entry, team_name, last_n, teams_resp, matches_resp, match_list,
                   page_resp, page_content, gemini_resp, feedback>>
    /\ UNCHANGED recVars

-----------------------------------------------------------------------------
(* FootballAgent.extract_page_content *)

\* line 112: the character budget
PageBudget == 5000

Min(a, b) == IF a < b THEN a ELSE b

CharAt(s, i) == SubSeq(s, i, i)

StartsWith(s, i, p) == i + Len(p) - 1 <= Len(s) /\ SubSeq(s, i, i + Len(p) - 1) = p

\* the least j >= i at which p occurs in s, or 0
RECURSIVE FindFrom(_, _, _)
FindFrom(s, i, p) ==
    IF i + Len(p) - 1 > Len(s) THEN 0
    ELSE IF StartsWith(s, i, p) THEN i
    ELSE FindFrom(s, i + 1, p)

\* where the match of  open[^>]*>.*?close  (DOTALL) that starts at i ends, or 0
BlockEnd(s, i, open, close) ==
    IF ~StartsWith(s, i, open) THEN 0
    ELSE LET gt == FindFrom(s, i + Len(open), ">") IN
         IF gt = 0 THEN 0
         ELSE LET c == FindFrom(s, gt + 1, close) IN
              IF c = 0 THEN 0 ELSE c + Len(close) - 1

\* re.sub(r'open[^>]*>.*?close', '', s, flags=re.DOTALL) from position i on
RECURSIVE RemoveBlocksFrom(_, _, _, _)
RemoveBlocksFrom(s, i, open, close) ==
    IF i > Len(s) THEN ""
    ELSE LET e == BlockEnd(s, i, open, close) IN
         IF e # 0 THEN RemoveBlocksFrom(s, e + 1, open, close)
         ELSE CharAt(s, i) \o RemoveBlocksFrom(s, i + 1, open, close)

\* lines 108-109
RemoveBlocks(s, open, close) == RemoveBlocksFrom(s, 1, open, close)

\* line 110: re.sub(r'<[^>]+>', ' ', s) from position i on
RECURSIVE StripTagsFrom(_, _)
StripTagsFrom(s, i) ==
    IF i > Len(s) THEN ""
    ELSE LET gt == IF CharAt(s, i) = "<" THEN FindFrom(s, i + 1, ">") ELSE 0 IN
         IF gt > i + 1 THEN " " \o StripTagsFrom(s, gt + 1)
         ELSE CharAt(s, i) \o StripTagsFrom(s, i + 1)

IsSpace(c) == c \in {" ", "\n", "\t", "\r"}

\* line 111: re.sub(r'\s+', ' ', s) from position i on
RECURSIVE CollapseFrom(_, _)
CollapseFrom(s, i) ==
    IF i > Len(s) THEN ""
    ELSE IF IsSpace(CharAt(s, i))
         THEN IF i > 1 /\ IsSpace(CharAt(s, i - 1))
              THEN CollapseFrom(s, i + 1)
              ELSE " " \o CollapseFrom(s, i + 1)
         ELSE CharAt(s, i) \o CollapseFrom(s, i + 1)

\* lines 107-112: the cleaning of a fetched body
CleanPage(text) ==
    LET a == RemoveBlocks(text, "<script", "</script>")
        b == RemoveBlocks(a, "<style", "</style>")
        c == StripTagsFrom(b, 1)
        d == CollapseFrom(c, 1)
    IN SubSeq(d, 1, Min(PageBudget, Len(d)))

PageChunks == {"<script>", "</script>", "<SCRIPT>", "</SCRIPT>", "<style>", "</style>",
               "<Style>", "<p>", "Hi", "js", " ", "\n"}

RECURSIVE Concat(_)
Concat(chunks) == IF Len(chunks) = 0 THEN "" ELSE Head(chunks) \o Concat(Tail(chunks))

\* the pages the whole-run specification draws from
RunPages == {"", "<p>Hi</p>", "<script>js</script>Hi", "<SCRIPT>js</SCRIPT>"}

Pages ==
    IF entry = "run" THEN RunPages
    ELSE {Concat(cs) : cs \in SeqsOf(PageChunks, 0, MaxChunks)}

PageResponses ==
    {[kind |-> "neterror", ok |-> FALSE, text |-> ""],
     [kind |-> "text", ok |-> FALSE, text |-> "<p>Not Found</p>"]}
        \cup {[kind |-> "text", ok |-> TRUE, text |-> p] : p \in Pages}

\* lines 101-115: extract_page_content's return value
PageText(r) == IF r.kind = "text" /\ r.ok THEN CleanPage(r.text) ELSE ""

\* RunSkipsPage with the "N/A" test of line 161 left out
RunNeverSkipsPage == FALSE

\* line 161: the condition under which run skips the page extraction
RunSkipsPage == entry = "run" /\ website_url = Str("N/A")

\* line 161, else branch:  page_content = ""
SkipPageExtraction ==
    /\ pc = "page"
    /\ RunSkipsPage
    /\ page_content' = ""
    /\ pc' = After("extract_page_content")
    /\ UNCHANGED <<entry, raised, calls, team_name, last_n, teams_resp, matches_resp,
                   match_list, serper_resp, site_result, website_url, page_resp,
                   gemini_resp, feedback>>
    /\ UNCHANGED recVars

\* lines 101-115
ExtractPageContent ==
    /\ pc = "page"
    /\ ~RunSkipsPage
    /\ \E r \in PageResponses :
          /\ page_resp' = r
          /\ calls' = Append(calls, "page_fetch")
          /\ page_content' = PageText(r)
    /\ pc' = After("extract_page_content")
    /\ UNCHANGED <<entry, raised, team_name, last_n, teams_resp, matches_resp,
                   match_list, serper_resp, site_result, website_url,
                   gemini_resp, feedback>>
    /\ UNCHANGED recVars

-----------------------------------------------------------------------------
(* The Gemini client of both scripts *)

GeminiReply(text) ==
    Obj([k \in {"candidates"} |-> List(<<
        Obj([k2 \in {"content"} |->
            Obj([k3 \in {"parts"} |-> List(<<Obj([k4 \in {"text"} |-> text])>>)])])>>)])

GeminiBodies ==
    { GeminiReply(Str("  {\"team_summary\": 1}\n")),
      GeminiReply(Str("Press higher.")),
      GeminiReply(Num(5)),
      GeminiReply(Null),
      EmptyObj,
      Obj([k \in {"candidates"} |-> List(<<>>)]),
      Obj([k \in {"candidates"} |-> Null]),
      Obj([k \in {"candidates"} |-> List(<<Obj([k2 \in {"content"} |-> EmptyObj])>>)]),
      Obj([k \in {"candidates"} |-> List(<<Obj([k2 \in {"content"} |->
            Obj([k3 \in {"parts"} |-> List(<<EmptyObj>>)])])>>)]),
      List(<<>>),
      Null }

GeminiResponses ==
    {NetError, BadJson(TRUE), Json(FALSE, GeminiReply(Str("Press higher.")))}
        \cup {Json(TRUE, b) : b \in GeminiBodies}

\* result["candidates"][0]["content"]["parts"][0]["text"]: the exception raised, or the value
CandidateText(result) ==
    LET a == IndexKey(result, "candidates")
        b == IF a.err = "none" THEN IndexZero(a.val) ELSE a
        c == IF b.err = "none" THEN IndexKey(b.val, "content") ELSE b
        d == IF c.err = "none" THEN IndexKey(c.val, "parts") ELSE c
        e == IF d.err = "none" THEN IndexZero(d.val) ELSE d
    IN IF e.err = "none" THEN IndexKey(e.val, "text") ELSE e

\* s.lstrip() from position i on
RECURSIVE LStripFrom(_, _)
LStripFrom(s, i) ==
    IF i > Len(s) THEN ""
    ELSE IF IsSpace(CharAt(s, i)) THEN LStripFrom(s, i + 1)
    ELSE SubSeq(s, i, Len(s))

RECURSIVE RStrip(_)
RStrip(s) ==
    IF Len(s) = 0 THEN ""
    ELSE IF IsSpace(CharAt(s, Len(s))) THEN RStrip(SubSeq(s, 1, Len(s) - 1))
    ELSE s

\* s.strip()
Strip(s) == RStrip(LStripFrom(s, 1))

\* agent.py lines 118-132: FootballAgent.call_gemini_api's return value
AgentCallGemini(r) ==
    IF r.kind # "json" \/ ~r.ok THEN ""
    ELSE LET t == CandidateText(r.body) IN
         IF t.err # "none" \/ t.val.t # "str" THEN "" ELSE Strip(t.val.v)

\* recommander.py line 19: the placeholder's text, after its warning sign
Placeholder == "No recommendation generated."

\* recommander.py lines 7-19: call_gemini_api's return value, or the exception raised
RecCallGemini(r) ==
    IF r.kind # "json" \/ ~r.ok THEN [exc |-> TRUE, val |-> Null]
    ELSE LET t == CandidateText(r.body) IN
         IF t.err \in {"KeyError", "IndexError"} THEN [exc |-> FALSE, val |-> Str(Placeholder)]
         ELSE IF t.err # "none" THEN [exc |-> TRUE, val |-> Null]
         ELSE [exc |-> FALSE, val |-> t.val]

\* recommander.py lines 32-61: llm_recommendation's return value, or the exception raised
LlmRecommendation(r) ==
    LET c == RecCallGemini(r) IN
    IF c.exc \/ c.val.t # "str" THEN [exc |-> TRUE, val |-> ""]
    ELSE [exc |-> FALSE, val |-> Strip(c.val.v)]

-----------------------------------------------------------------------------
(* FootballAgent.analyze_matches and run *)

\* AnalyzeShortcut with the test of line 136 left out
AnalyzeShortcutNever(ml) == FALSE

\* agent.py line 136: the empty-input shortcut
AnalyzeShortcut(ml) == Len(ml) = 0

\* agent.py line 137
NoDataSentence(team, url) ==
    "No match data found for " \o team \o " from " \o PyStr(url) \o "."

\* agent.py lines 135-155, and line 163 of run
AnalyzeMatches ==
    /\ pc = "analyze"
    /\ IF AnalyzeShortcut(match_list)
       THEN /\ feedback' = NoDataSentence(team_name, website_url)
            /\ UNCHANGED <<calls, gemini_resp>>
       ELSE \E r \in GeminiResponses :
               /\ gemini_resp' = r
               /\ calls' = Append(calls, "llm")
               /\ feedback' = AgentCallGemini(r)
    /\ pc' = After("analyze_matches")
    /\ UNCHANGED <<entry, raised, team_name, last_n, teams_resp, matches_resp,
                   match_list, serper_resp, site_result, website_url, page_resp,
                   page_content>>
    /\ UNCHANGED recVars

-----------------------------------------------------------------------------
(* recommander.py: run_realtime_recommender *)

Digits == "0123456789"

RECURSIVE IntToStr(_)
IntToStr(n) ==
    IF n < 10 THEN SubSeq(Digits, n + 1, n + 1)
    ELSE IntToStr(n \div 10) \o SubSeq(Digits, (n % 10) + 1, (n % 10) + 1)

\* line 73: the first value of range(5, duration * 5 + 1, 5), and its step
LoopStart == 5
LoopStep == 5

\* line 73: the loop goes on while minute lies in the range
InRange(m, d) == m < d * LoopStep + 1

\* lines 75-86: the snapshots random.randint can produce for a minute (the fields the
\* sampled values of which the model draws; possession, shots_on_target, yellow_cards
\* and avg_player_speed are sampled the same way and read by nothing but the prompt)
Snapshots(m) ==
    [ minute : {IntToStr(m) \o ":00"}, score : {0, 2}, opponent_score : {1},
      red_cards : 0..1 ]

\* lines 23-28: the predictor's outputs, in hundredths, at the ends of their ranges
Predictions == { [win |-> 20, draw |-> 10, lose |-> 20],
                 [win |-> 60, draw |-> 40, lose |-> 60] }

\* lines 66-67: open the report and parse it
RecOpenReport ==
    /\ pc = "rec_open"
    /\ \E readable \in BOOLEAN :
          IF readable
          THEN pc' = "rec_loop" /\ minute' = LoopStart /\ raised' = raised
          ELSE pc' = "raised" /\ raised' = TRUE /\ minute' = minute
    /\ UNCHANGED <<entry, calls, gemini_resp, feedback, duration, live_stats, ml_pred,
                   printed>>
    /\ UNCHANGED agentVars

\* lines 73-95: one iteration of the loop
RecIteration ==
    /\ pc = "rec_loop"
    /\ InRange(minute, duration)
    /\ \E snap \in Snapshots(minute), pred \in Predictions, r \in GeminiResponses :
          /\ live_stats' = snap
          /\ ml_pred' = pred
          /\ gemini_resp' = r
          /\ calls' = calls \o <<"predict", "llm">>
          /\ IF LlmRecommendation(r).exc
             THEN /\ raised' = TRUE
                  /\ pc' = "raised"
                  /\ UNCHANGED <<printed, minute, feedback>>
             ELSE /\ raised' = raised
                  /\ pc' = pc
                  /\ feedback' = LlmRecommendation(r).val
                  /\ printed' = Append(printed,
                                   [header |-> "--- Minute " \o IntToStr(minute) \o " ---",
                                    snapshot |-> snap.minute,
                                    recs |-> LlmRecommendation(r).val])
                  /\ minute' = minute + LoopStep
    /\ UNCHANGED <<entry, duration>>
    /\ UNCHANGED agentVars

\* line 73: the range is exhausted
RecLoopEnd ==
    /\ pc = "rec_loop"
    /\ ~InRange(minute, duration)
    /\ pc' = "done"
    /\ UNCHANGED <<entry, raised, calls, gemini_resp, feedback>>
    /\ UNCHANGED recVars
    /\ UNCHANGED agentVars

-----------------------------------------------------------------------------
(* Specifications *)

TeamNames == {"Barcelona", "Ajax"}

InitCommon ==
    /\ raised = FALSE
    /\ calls = <<>>
    /\ team_name \in TeamNames
    /\ teams_resp = NoResp
    /\ matches_resp = NoResp
    /\ match_list = <<>>
    /\ serper_resp = NoResp
    /\ site_result = Null
    /\ website_url = Null
    /\ page_resp = [kind |-> "none", ok |-> FALSE, text |-> ""]
    /\ page_content = ""
    /\ gemini_resp = NoResp
    /\ feedback = ""
    /\ minute = 0
    /\ live_stats = [minute |-> "", score |-> 0, opponent_score |-> 0, red_cards |-> 0]
    /\ ml_pred = [win |-> 0, draw |-> 0, lose |-> 0]
    /\ printed = <<>>

\* agent.py lines 158-163 and 173-175: FootballAgent.run
RunLastN == {0, 1, 5}

InitRun ==
    /\ entry = "run"
    /\ pc = "fetch_team"
    /\ last_n \in RunLastN
    /\ duration = 0
    /\ InitCommon

Next ==
    \/ FetchTeamSearch
    \/ FetchEvents
    \/ SearchOfficialSite
    \/ SkipPageExtraction
    \/ ExtractPageContent
    \/ AnalyzeMatches

Spec == InitRun /\ [][Next]_vars

InitFetch ==
    /\ entry = "fetch_matches"
    /\ pc = "fetch_team"
    /\ last_n \in -MaxNeg..MaxN
    /\ duration = 0
    /\ InitCommon

NextFetch == FetchTeamSearch \/ FetchEvents

SpecFetch == InitFetch /\ [][NextFetch]_vars

InitSite ==
    /\ entry = "search_official_site"
    /\ pc = "site"
    /\ last_n = 5
    /\ duration = 0
    /\ InitCommon

NextSite == SearchOfficialSite

SpecSite == InitSite /\ [][NextSite]_vars

InitPage ==
    /\ entry = "extract_page_content"
    /\ pc = "page"
    /\ last_n = 5
    /\ duration = 0
    /\ InitCommon

NextPage == ExtractPageContent

SpecPage == InitPage /\ [][NextPage]_vars

InitRecommender ==
    /\ entry = "run_realtime_recommender"
    /\ pc = "rec_open"
    /\ last_n = 5
    /\ duration \in 0..MaxDuration
    /\ InitCommon

NextRecommender == RecOpenReport \/ RecIteration \/ RecLoopEnd

SpecRecommender == InitRecommender /\ [][NextRecommender]_vars

-----------------------------------------------------------------------------
(* Properties *)

Max(a, b) == IF a > b THEN a ELSE b

Issued(c) == \E i \in DOMAIN calls : calls[i] = c

Count(c) == Cardinality({i \in DOMAIN calls : calls[i] = c})

FetchReturned == entry \in {"fetch_matches", "run"} /\ pc \notin {"fetch_team", "fetch_events"}

\* the team search answered with an object that names no team
NoTeamFound(r) ==
    /\ r.kind = "json" /\ r.body.t = "obj"
    /\ \/ "teams" \notin DOMAIN r.body.v
       \/ r.body.v["teams"].t = "null"
       \/ r.body.v["teams"].t = "list" /\ Len(r.body.v["teams"].v) = 0

\* a transport error, an unparsable body, a body that is no object, or a first team
\* record without its identifier
TeamCallFailed(r) ==
    \/ r.kind \in {"neterror", "badjson"}
    \/ r.kind = "json" /\ r.body.t # "obj"
    \/ /\ r.kind = "json" /\ r.body.t = "obj" /\ "teams" \in DOMAIN r.body.v
       /\ r.body.v["teams"].t = "list" /\ Len(r.body.v["teams"].v) > 0
       /\ r.body.v["teams"].v[1].t = "obj"
       /\ "idTeam" \notin DOMAIN r.body.v["teams"].v[1].v

\* the events call failed, or answered with no results
EventsCallEmpty(r) ==
    \/ r.kind \in {"neterror", "badjson"}
    \/ r.kind = "json" /\ r.body.t # "obj"
    \/ /\ r.kind = "json" /\ r.body.t = "obj"
       /\ \/ "results" \notin DOMAIN r.body.v
          \/ r.body.v["results"].t = "null"
          \/ r.body.v["results"].t = "list" /\ Len(r.body.v["results"].v) = 0

\* C1: fetch_matches never raises, and returns the empty list when no team is found
\* (without calling the events endpoint), when the events call yields no results, and
\* when either call fails with a transport or parse error.
C1_FetchFailsSoft ==
    FetchReturned =>
        /\ ~raised
        /\ NoTeamFound(teams_resp) => Len(match_list) = 0 /\ ~Issued("team_events")
        /\ TeamCallFailed(teams_resp) => Len(match_list) = 0
        /\ (Issued("team_events") /\ EventsCallEmpty(matches_resp)) => Len(match_list) = 0

C1_Witness ==
    /\ entry = "fetch_matches" /\ pc = "done"
    /\ Issued("team_events") /\ matches_resp.kind = "badjson"
    /\ Len(match_list) = 0

\* the events endpoint answered with a list of match records
HasEventList ==
    /\ FetchReturned /\ Issued("team_events")
    /\ matches_resp.kind = "json" /\ matches_resp.body.t = "obj"
    /\ "results" \in DOMAIN matches_resp.body.v
    /\ matches_resp.body.v["results"].t = "list"
    /\ \A i \in 1..Len(matches_resp.body.v["results"].v) :
          matches_resp.body.v["results"].v[i].t = "obj"

Events == matches_resp.body.v["results"].v

\* C3 as stated: for every event list E and every N, negative N included, the result is
\* the formatting of the first min(N, |E|) events of E, in the provider's order.
C3_FirstMinNE ==
    HasEventList =>
        match_list = [i \in 1..Min(last_n, Len(Events)) |-> FormatMatch(Events[i])]

\* C3 as amended: for N >= 0 the result is the formatting of the first min(N, |E|)
\* events, at most N strings; for N < 0 it is the formatting of the first
\* max(|E| + N, 0) events: the last |N| events are left out.
C3_SliceOfEvents ==
    HasEventList =>
        LET k == IF last_n >= 0 THEN Min(last_n, Len(Events))
                 ELSE Max(Len(Events) + last_n, 0)
        IN /\ match_list = [i \in 1..k |-> FormatMatch(Events[i])]
           /\ last_n >= 0 => Len(match_list) <= last_n

C3_Witness ==
    /\ HasEventList /\ entry = "fetch_matches"
    /\ last_n = -1 /\ Len(Events) = 3 /\ Len(match_list) = 2
    /\ Events[1] # Events[2]

Slot(m, key, default) == IF key \in DOMAIN m.v THEN m.v[key].v ELSE default

AllStrings(m) == \A k \in DOMAIN m.v : m.v[k].t = "str"

\* C8: every record of the slice is formatted "{home} vs {away} - {date}", with
\* "Unknown date" for a missing date and "" for a missing team name; no record of the
\* slice is dropped.
C8_Formatting ==
    HasEventList =>
        /\ Len(match_list) = Len(SliceTo(Events, last_n))
        /\ \A i \in 1..Len(match_list) :
              AllStrings(Events[i]) =>
                  match_list[i] = Slot(Events[i], "strHomeTeam", "") \o " vs "
                                    \o Slot(Events[i], "strAwayTeam", "") \o " - "
                                    \o Slot(Events[i], "dateEvent", "Unknown date")

C8_Witness ==
    /\ HasEventList /\ entry = "fetch_matches"
    /\ \E i \in 1..Len(match_list) :
          /\ DOMAIN Events[i].v = {"strAwayTeam"}
          /\ match_list[i] = " vs Real Madrid - Unknown date"

\* C4: with an empty match list analyze_matches returns the fixed sentence naming the
\* team and calls the LLM client zero times; with a non-empty one it calls it exactly
\* once and returns its result; a run whose fetch returned nothing never calls it.
C4_EmptyShortcut ==
    entry = "run" =>
        /\ (FetchReturned /\ Len(match_list) = 0) => Count("llm") = 0
        /\ pc = "done" =>
              IF Len(match_list) = 0
              THEN /\ StartsWith(feedback, 1, "No match data found for " \o team_name \o " from ")
                   /\ gemini_resp.kind = "none"
              ELSE /\ Count("llm") = 1
                   /\ gemini_resp.kind # "none"
                   /\ feedback = AgentCallGemini(gemini_resp)

C4_Witness ==
    /\ entry = "run" /\ pc = "done"
    /\ Len(match_list) = 0 /\ Issued("team_events") /\ Issued("page_fetch")
    /\ feedback = "No match data found for Ajax from https://www.fcbarcelona.com."

\* the fixed order of run's external calls
CallOrder == <<"team_search", "team_events", "web_search", "page_fetch", "llm">>

Rank(c) == CHOOSE i \in DOMAIN CallOrder : CallOrder[i] = c

\* C9: run's external calls are a subsequence of CallOrder, each issued at most once;
\* the page fetch and the LLM call come after the match fetch and the site lookup have
\* completed, the page fetch only when the lookup returned a link, the LLM call only
\* when the match list is not empty.
C9_CallOrder ==
    entry = "run" =>
        /\ \A i, j \in DOMAIN calls : i < j => Rank(calls[i]) < Rank(calls[j])
        /\ Issued("page_fetch") =>
              /\ FetchReturned /\ Issued("team_search") /\ Issued("web_search")
              /\ Truthy(site_result)
        /\ Issued("llm") =>
              /\ FetchReturned /\ Issued("team_search") /\ Issued("web_search")
              /\ Len(match_list) > 0
        /\ pc \in {"page", "analyze"} => Issued("team_search") /\ Issued("web_search")

C9_Witness ==
    /\ entry = "run" /\ pc = "done"
    /\ calls = CallOrder

\* C5 as stated: search_official_site never raises; whatever the search provider
\* answered, it returns a link or None.
C5_SiteNeverRaises ==
    (entry = "search_official_site" /\ pc # "site") =>
        /\ ~raised
        /\ pc = "done"
        /\ site_result.t = "null" \/ (site_result.t = "str" /\ site_result.v # "")

\* the first field name of OrganicKeys whose value is a non-empty list, or 0
SelectedKey(body) ==
    LET hits == {i \in 1..Len(OrganicKeys) :
                    /\ OrganicKeys[i] \in DOMAIN body.v
                    /\ body.v[OrganicKeys[i]].t = "list"
                    /\ Len(body.v[OrganicKeys[i]].v) > 0}
    IN IF hits = {} THEN 0 ELSE CHOOSE i \in hits : \A j \in hits : i <= j

LinkFields == <<"link", "url", "displayed_link", "source">>

\* C6 as stated: the first non-empty array in the order of OrganicKeys is the one used;
\* the result is the link of its first item, the first non-empty of the item's link,
\* url, displayed_link and source; None is returned only if the search failed or
\* returned nothing.
C6_FirstLink ==
    (entry = "search_official_site" /\ pc # "site"
        /\ serper_resp.kind = "json" /\ serper_resp.ok /\ serper_resp.body.t = "obj") =>
        LET k == SelectedKey(serper_resp.body) IN
        IF k = 0 THEN ~raised /\ site_result.t = "null"
        ELSE LET item == serper_resp.body.v[OrganicKeys[k]].v[1] IN
             /\ ~raised
             /\ site_result.t # "null"
             /\ item.t = "obj"
             /\ \E f \in DOMAIN LinkFields :
                   /\ LinkFields[f] \in DOMAIN item.v
                   /\ Truthy(item.v[LinkFields[f]])
                   /\ site_result = item.v[LinkFields[f]]
                   /\ \A g \in 1..(f - 1) :
                         LinkFields[g] \in DOMAIN item.v => ~Truthy(item.v[LinkFields[g]])

UpperCase == "ABCDEFGHIJKLMNOPQRSTUVWXYZ"
LowerCase == "abcdefghijklmnopqrstuvwxyz"

LowerChar(c) ==
    LET i == FindFrom(UpperCase, 1, c) IN IF i = 0 THEN c ELSE CharAt(LowerCase, i)

RECURSIVE Lower(_)
Lower(s) == IF Len(s) = 0 THEN "" ELSE LowerChar(Head(s)) \o Lower(Tail(s))

\* the removal of open ... close blocks whatever the letter case of the tag names
RECURSIVE RemoveBlocksAnyCase(_, _, _, _)
RemoveBlocksAnyCase(s, i, open, close) ==
    IF i > Len(s) THEN ""
    ELSE LET e == BlockEnd(Lower(s), i, open, close) IN
         IF e # 0 THEN RemoveBlocksAnyCase(s, e + 1, open, close)
         ELSE CharAt(s, i) \o RemoveBlocksAnyCase(s, i + 1, open, close)

CleanPageAnyCase(text) ==
    LET a == RemoveBlocksAnyCase(text, 1, "<script", "</script>")
        b == RemoveBlocksAnyCase(a, 1, "<style", "</style>")
        c == StripTagsFrom(b, 1)
        d == CollapseFrom(c, 1)
    IN SubSeq(d, 1, Min(PageBudget, Len(d)))

\* C10 as stated: script and style blocks are removed whatever the letter case of the
\* tag name and across newlines; the remaining tags become single spaces, whitespace
\* runs collapse to one space and the result is cut to 5000 characters.
C10_BlocksRemovedAnyCase ==
    (entry = "extract_page_content" /\ pc = "done"
        /\ page_resp.kind = "text" /\ page_resp.ok) =>
        page_content = CleanPageAnyCase(page_resp.text)

\* the LLM exchange failed: a transport failure, a non-2xx status, an unparsable body,
\* or a body without a text at candidates[0].content.parts[0]
LlmFailed(r) ==
    \/ r.kind \in {"neterror", "badjson"}
    \/ r.kind = "json" /\ ~r.ok
    \/ r.kind = "json" /\ r.ok
         /\ (CandidateText(r.body).err # "none" \/ CandidateText(r.body).val.t # "str")

\* C2 as stated: on both paths a failed LLM exchange is caught: the report path returns
\* "", the recommendation path the placeholder, and no error propagates, so the loop
\* goes on.
C2_LlmErrorsCaught ==
    /\ (entry = "run" /\ Issued("llm") /\ LlmFailed(gemini_resp)) =>
          ~raised /\ feedback = ""
    /\ (entry = "run_realtime_recommender" /\ Issued("llm") /\ LlmFailed(gemini_resp)) =>
          /\ ~raised
          /\ Len(printed) > 0
          /\ printed[Len(printed)].recs = Placeholder

\* C7 as stated: with duration d >= 0 the loop performs exactly d iterations and prints
\* exactly d blocks, the k-th for the snapshot of minute "5k:00", each iteration making
\* one predictor call and then one LLM call.
C7_ExactlyDBlocks ==
    (entry = "run_realtime_recommender" /\ minute > 0) =>
        /\ pc \in {"done", "raised"} => Len(printed) = duration
        /\ \A k \in DOMAIN printed :
              /\ printed[k].snapshot = IntToStr(5 * k) \o ":00"
              /\ printed[k].header = "--- Minute " \o IntToStr(5 * k) \o " ---"
        /\ Len(calls) = 2 * Len(printed)
        /\ \A i \in DOMAIN calls : calls[i] = IF i % 2 = 1 THEN "predict" ELSE "llm"

====
